---- MODULE Spec2Model ----
(***************************************************************************)
(* py-desmume: the typed memory-access facade of desmume/emulator.py       *)
(* (DeSmuME_Memory, MemoryAccessor, RegisterAccessor, the watchpoint       *)
(* registration) and the keypad handling of DeSmuME / DeSmuME_Input.       *)
(*                                                                         *)
(* The native library (MemoryPort in spec.md) is a byte-addressable        *)
(* memory, a register file per processor, a watchpoint table and a keypad  *)
(* word.  Python integers are unbounded; the ctypes conversions declared   *)
(* in DeSmuME_Memory.__init__ give every value its width.                  *)
(***************************************************************************)
EXTENDS Integers, Sequences, FiniteSets, TLC

VARIABLES
    mem,              \* native memory: a sequence of bytes, address a is cell (a mod Len) + 1
    regs,             \* native register file: register name (prefix + name) -> value
    hooks,            \* native watchpoint table: <<kind, address>> -> installed trampoline (0 = null)
    _registered_cbs,  \* DeSmuME_Memory._registered_cbs: the retained trampolines
    next_cb,          \* identity of the next trampoline MEMORY_CB_FN(...) creates
    invoked,          \* trampolines invoked by the last trigger, in order
    stack,            \* the calls in progress on the thread that called cycle, innermost last
    keypad,           \* native keypad word
    running,          \* native "emulator is running" flag
    has_joy,          \* DeSmuME_Input.has_joy
    joy_on,           \* native joystick subsystem is initialized
    ctl,              \* MainController's attributes that its handlers change
    idle_sources,     \* emu_cycle idle handlers scheduled in the GLib main loop
    chosen_fs,        \* the frameskip last chosen through the frameskip menu
    rs,               \* read_string's frame: pc, address, codec, max_len, string_buff, i, cur_byte, result
    nops,             \* state-changing calls made so far
    last              \* the last facade call: its arguments, result and native calls

memVars   == <<mem>>
regVars   == <<regs>>
watchVars == <<hooks, _registered_cbs, next_cb, invoked, stack>>
inputVars == <<keypad, running, has_joy, joy_on>>
strVars   == <<rs>>
ctlVars   == <<ctl, idle_sources, chosen_fs>>
vars == <<mem, regs, hooks, _registered_cbs, next_cb, invoked, stack, keypad, running, has_joy, joy_on,
          rs, ctl, idle_sources, chosen_fs,
          nops, last>>

----------------------------------------------------------------------------
(* Bounds of the model *)

MemSize          == 5    \* cells of the enumerated memories
MaxStart         == 1    \* start addresses 0..MaxStart
MaxSpan          == 8    \* end - start ranges over -1..MaxSpan
MaxRegSets       == 1    \* register writes per behaviour
MaxRegistrations == 2    \* watchpoint registrations per behaviour
MaxFrames        == 3    \* emulated frames a behaviour of the frontend runs
MaxScan          == 60   \* bytes read_string scans before the model stops following it

----------------------------------------------------------------------------
(* ctypes widths.  c_uint8/c_int8 have 8 bits and c_uint16/c_int16 have 16. *)
(* The 4-byte types (c_uint32, c_int32, c_int, c_uint) have 32 bits in the  *)
(* program; the model gives them LongBits = 30, so that every unsigned      *)
(* 4-byte value, and values beyond it, are integers the model checker can   *)
(* hold (its integers end at 2^31 - 1).  Wrap-around and the sign bit work  *)
(* as with 32.                                                              *)

LongBits == 30

Pow2(n) == 2 ^ n

\* Bits of the ctypes integer of n bytes.
Bits(n) == IF n = 4 THEN LongBits ELSE 8 * n

\* An unsigned ctypes integer of n bytes made from Python integer v (no overflow check).
c_unsigned(n, v) == v % Pow2(Bits(n))

\* A signed ctypes integer of n bytes made from Python integer v (no overflow check).
c_signed(n, v) ==
    LET u == v % Pow2(Bits(n))
    IN  IF u >= Pow2(Bits(n) - 1) THEN u - Pow2(Bits(n)) ELSE u

c_uint8(v)  == c_unsigned(1, v)
c_uint16(v) == c_unsigned(2, v)
c_uint32(v) == c_unsigned(4, v)
c_int8(v)   == c_signed(1, v)
c_int16(v)  == c_signed(2, v)
c_int32(v)  == c_signed(4, v)
c_int(v)    == c_signed(4, v)

\* Python's None, where an integer size is expected (slice.step of a[x:y]).
None == -1

----------------------------------------------------------------------------
(* MemoryPort: the native memory.  Little-endian units, addresses wrap.     *)

cell(m, a) == m[(a % Len(m)) + 1]

RECURSIVE raw_unit(_, _, _, _)
\* the low `bits` bits of the n-byte little-endian unit at address a
raw_unit(m, a, n, bits) ==
    IF n = 0 THEN 0
    ELSE (cell(m, a) % Pow2(IF bits < 8 THEN bits ELSE 8))
         + 256 * raw_unit(m, a + 1, n - 1, bits - 8)

RECURSIVE store_unit(_, _, _, _)
\* memory after storing the low n bytes of v at address a
store_unit(m, a, n, v) ==
    IF n = 0 THEN m
    ELSE store_unit([m EXCEPT ![(a % Len(m)) + 1] = v % 256], a + 1, n - 1, v \div 256)

\* The six native unit reads, with the restype DeSmuME_Memory.__init__ declares.
desmume_memory_read_byte(m, a)         == c_uint8(raw_unit(m, a, 1, Bits(1)))
desmume_memory_read_byte_signed(m, a)  == c_int8(raw_unit(m, a, 1, Bits(1)))
desmume_memory_read_short(m, a)        == c_uint16(raw_unit(m, a, 2, Bits(2)))
desmume_memory_read_short_signed(m, a) == c_int16(raw_unit(m, a, 2, Bits(2)))
desmume_memory_read_long(m, a)         == c_uint32(raw_unit(m, a, 4, Bits(4)))
desmume_memory_read_long_signed(m, a)  == c_int32(raw_unit(m, a, 4, Bits(4)))

\* The three native unit writes, with the argtypes DeSmuME_Memory.__init__ declares.
desmume_memory_write_byte(m, a, v)  == store_unit(m, a, 1, c_uint8(v))
desmume_memory_write_short(m, a, v) == store_unit(m, a, 2, c_uint16(v))
desmume_memory_write_long(m, a, v)  == store_unit(m, a, 4, c_uint32(v))

\* One native call as the library sees it.
Call(fn, a, v) == [fn |-> fn, addr |-> a, val |-> v]

native_read(fn, m, a) ==
    CASE fn = "read_byte"         -> desmume_memory_read_byte(m, a)
      [] fn = "read_byte_signed"  -> desmume_memory_read_byte_signed(m, a)
      [] fn = "read_short"        -> desmume_memory_read_short(m, a)
      [] fn = "read_short_signed" -> desmume_memory_read_short_signed(m, a)
      [] fn = "read_long"         -> desmume_memory_read_long(m, a)
      [] fn = "read_long_signed"  -> desmume_memory_read_long_signed(m, a)

native_write(fn, m, a, v) ==
    CASE fn = "write_byte"  -> desmume_memory_write_byte(m, a, v)
      [] fn = "write_short" -> desmume_memory_write_short(m, a, v)
      [] fn = "write_long"  -> desmume_memory_write_long(m, a, v)

----------------------------------------------------------------------------
(* DeSmuME_Memory.read                                                      *)

\* PyRange stepping by 1 whatever the step.
PyRange_unit_step(start, end, step) ==
    [k \in 1..(IF end > start THEN end - start ELSE 0) |-> start + (k - 1)]

\* Python's range(start, end, step) for step > 0, as a sequence.
PyRange(start, end, step) ==
    LET n == IF end > start THEN (end - start + step - 1) \div step ELSE 0
    IN  [k \in 1..n |-> start + (k - 1) * step]

\* The native read the equal-bounds branch calls ("" when it falls through to the raise).
scalar_fn(size, signed) ==
    IF signed
    THEN CASE size = 1 -> "read_byte_signed"
           [] size = 2 -> "read_short_signed"
           [] size = 4 -> "read_long_signed"
           [] OTHER    -> ""
    ELSE CASE size = 1 -> "read_byte"
           [] size = 2 -> "read_short"
           [] size = 4 -> "read_long"
           [] OTHER    -> ""

\* range_fn with the signed and the unsigned branch taken for each other.
range_fn_swapped(size, signed) == scalar_fn(size, ~signed)

\* The native read the range branch calls in its loop ("" for the else: raise).
range_fn(size, signed) ==
    IF signed
    THEN CASE size = 1 -> "read_byte_signed"
           [] size = 2 -> "read_short_signed"
           [] size = 4 -> "read_long_signed"
           [] OTHER    -> ""
    ELSE CASE size = 1 -> "read_byte"
           [] size = 2 -> "read_short"
           [] size = 4 -> "read_long"
           [] OTHER    -> ""

\* What a call returns or raises, and the native calls it made.
Result(kind, val, err, calls) == [kind |-> kind, val |-> val, err |-> err, calls |-> calls]

\* start == end: one value, what kind depends on size.
read_scalar(m, start, size, signed) ==
    LET fn == scalar_fn(size, signed)
    IN  IF fn = ""
        THEN Result("error", <<>>, "Invalid size.", <<>>)
        ELSE Result("int", <<native_read(fn, m, start)>>, "", <<Call(fn, start, 0)>>)

\* read_loop reading at start where it should read at addr.
read_loop_at_start(m, start, end, size, fn) ==
    LET addrs == PyRange(start, end, size)
    IN  [vals  |-> [k \in 1..Len(addrs) |-> native_read(fn, m, start)],
         calls |-> [k \in 1..Len(addrs) |-> Call(fn, start, 0)]]

\* for i, addr in enumerate(range(start, end, size)): one native read per address.
read_loop(m, start, end, size, fn) ==
    LET addrs == PyRange(start, end, size)
    IN  [vals  |-> [k \in 1..Len(addrs) |-> native_read(fn, m, addrs[k])],
         calls |-> [k \in 1..Len(addrs) |-> Call(fn, addrs[k], 0)]]

\* start != end: a range.
read_range(m, start, end, size, signed) ==
    LET fn == range_fn(size, signed)
    IN  IF fn = ""
        THEN Result("error", <<>>, "Invalid size.", <<>>)
        ELSE IF ~signed /\ size = 1
        THEN \* b = bytearray(int(end - start)); b[i] = ...; bytes(b)
             IF end - start < 0
             THEN Result("error", <<>>, "negative count", <<>>)
             ELSE LET got == read_loop(m, start, end, size, fn)
                      b   == [k \in 1..(end - start) |->
                                 IF k <= Len(got.vals) THEN got.vals[k] ELSE 0]
                  IN  Result("bytes", b, "", got.calls)
        ELSE LET got == read_loop(m, start, end, size, fn)
             IN  Result("list", got.vals, "", got.calls)

read(m, start, end, size0, signed) ==
    LET size == IF size0 = None THEN 1 ELSE size0
    IN  IF start = end
        THEN read_scalar(m, start, size, signed)
        ELSE read_range(m, start, end, size, signed)

----------------------------------------------------------------------------
(* MemoryAccessor reads *)

\* MemoryAccessor.__getitem__ with an int key.
acc_getitem_int(m, signed, key) == read(m, key, key, 1, signed)

\* MemoryAccessor.__getitem__ with a slice key (step None when omitted).
acc_getitem_slice(m, signed, start, stop, step) == read(m, start, stop, step, signed)

acc_read_byte(m, signed, addr)  == acc_getitem_int(m, signed, addr)
acc_read_short(m, signed, addr) == acc_getitem_slice(m, signed, addr, addr, 2)
acc_read_long(m, signed, addr)  == acc_getitem_slice(m, signed, addr, addr, 4)

----------------------------------------------------------------------------
(* DeSmuME_Memory.write                                                     *)

\* write_end without the "write at least one" step.
write_end_unchanged(start, end) == end

\* if start == end: end += 1  # Write at least one.
write_end(start, end) == IF start = end THEN end + 1 ELSE end

\* write_fn with the size 4 branch calling the size 2 branch's native write.
write_fn_short_for_long(size) ==
    CASE size = 1 -> "write_byte"
      [] size = 2 -> "write_short"
      [] size = 4 -> "write_short"
      [] OTHER    -> ""

\* write_fn with any other size treated as 1 instead of raising.
write_fn_coercing(size) ==
    CASE size = 2 -> "write_short"
      [] size = 4 -> "write_long"
      [] OTHER    -> "write_byte"

\* The native write each size branch calls ("" for the else: raise).
write_fn(size) ==
    CASE size = 1 -> "write_byte"
      [] size = 2 -> "write_short"
      [] size = 4 -> "write_long"
      [] OTHER    -> ""

\* The ctypes value each size branch builds from value[i].
write_arg(size, v) ==
    CASE size = 1 -> c_uint8(v)
      [] size = 2 -> c_uint16(v)
      [] size = 4 -> c_uint32(v)

\* What write leaves behind: the memory, the error it raised ("" for none), its native calls.
WriteResult(m, err, calls) == [mem |-> m, err |-> err, calls |-> calls]

RECURSIVE write_loop(_, _, _, _, _, _)
\* for i, addr in enumerate(range(start, end, size)): native write of value[i] at addr;
\* value[i] past the end of value raises IndexError, the writes made so far stay.
write_loop(m, addrs, value, size, k, calls) ==
    IF k > Len(addrs) THEN WriteResult(m, "", calls)
    ELSE IF k > Len(value) THEN WriteResult(m, "IndexError", calls)
    ELSE LET fn  == write_fn(size)
             arg == write_arg(size, value[k])
         IN  write_loop(native_write(fn, m, addrs[k], arg), addrs, value, size, k + 1,
                        Append(calls, Call(fn, addrs[k], arg)))

\* write checking the length of value before the first unit write.
write_validating(m, start, end0, size, value) ==
    IF write_fn(size) = ""
    THEN WriteResult(m, "Invalid size.", <<>>)
    ELSE IF Len(value) < Len(PyRange(start, write_end(start, end0), size))
    THEN WriteResult(m, "IndexError", <<>>)
    ELSE write_loop(m, PyRange(start, write_end(start, end0), size), value, size, 1, <<>>)

\* write going through every element of value, whatever end is.
write_whole_value(m, start, end0, size, value) ==
    IF write_fn(size) = ""
    THEN WriteResult(m, "Invalid size.", <<>>)
    ELSE write_loop(m, PyRange(start, start + Len(value) * size, size), value, size, 1, <<>>)

write(m, start, end0, size, value) ==
    LET end == write_end(start, end0)
    IN  IF write_fn(size) = ""
        THEN WriteResult(m, "Invalid size.", <<>>)
        ELSE write_loop(m, PyRange(start, end, size), value, size, 1, <<>>)

write_byte(m, addr, value)  == write(m, addr, addr, 1, <<value>>)
write_short(m, addr, value) == write(m, addr, addr, 2, <<value>>)
write_long(m, addr, value)  == write(m, addr, addr, 4, <<value>>)

----------------------------------------------------------------------------
(* MemoryAccessor writes *)

\* acc_setitem_int with the signed accessor calling a signed write entry point.
acc_setitem_int_by_sign(m, signed, key, value) ==
    LET w == IF value \in 0..255
             THEN write(m, key, key, 1, <<value>>)
             ELSE WriteResult(m, "bytes must be in range(0, 256)", <<>>)
    IN  IF signed
        THEN [w EXCEPT !.calls = [k \in 1..Len(w.calls) |->
                                     [w.calls[k] EXCEPT !.fn = "write_byte_signed"]]]
        ELSE w

\* MemoryAccessor.__setitem__ with an int key: write(key, key, 1, bytes([value])), where
\* bytes([value]) raises ValueError for a value outside 0..255.  self.signed is not read.
acc_setitem_int(m, signed, key, value) ==
    IF value \in 0..255
    THEN write(m, key, key, 1, <<value>>)
    ELSE WriteResult(m, "bytes must be in range(0, 256)", <<>>)

\* MemoryAccessor.__setitem__ with a slice key: write(key.start, key.stop, key.step, value),
\* step None when omitted.  self.signed is not read.
acc_setitem_slice(m, signed, start, stop, step, value) == write(m, start, stop, step, value)

----------------------------------------------------------------------------
(* RegisterAccessor                                                         *)

\* The two views DeSmuME_Memory.__init__ constructs.
Prefixes == {"arm9.", "arm7."}

\* The register names the properties of RegisterAccessor use.
RegNames == {"r" \o ToString(i) : i \in 0..15} \cup {"cpsr", "spsr"}

\* Native register read: restype is ctypes' default, c_int.
desmume_memory_read_register(rg, name) == c_int(rg[name])

\* Native register write: argtypes [c_char_p, c_int].
desmume_memory_write_register(rg, name, value) == [rg EXCEPT ![name] = c_int(value)]

\* Property getter rX / cpsr / spsr: one named read of prefix + name.
reg_get(rg, prefix, name) ==
    Result("int", <<desmume_memory_read_register(rg, prefix \o name)>>, "",
           <<Call("read_register", prefix \o name, 0)>>)

\* What a register setter leaves behind: the register file, the error raised, its native calls.
RegResult(rg, err, calls) == [regs |-> rg, err |-> err, calls |-> calls]

\* Property setter rX / cpsr / spsr: one named write of prefix + name.
reg_set(rg, prefix, name, value) ==
    RegResult(desmume_memory_write_register(rg, prefix \o name, value), "",
              <<Call("write_register", prefix \o name, c_int(value))>>)

\* alias_target with sp and lr forwarding to each other's register.
alias_target_swapped(alias) ==
    CASE alias = "sp" -> "r14"
      [] alias = "lr" -> "r13"
      [] alias = "pc" -> "r15"

\* The aliases: sp is r13, lr is r14, pc is r15.
alias_target(alias) ==
    CASE alias = "sp" -> "r13"
      [] alias = "lr" -> "r14"
      [] alias = "pc" -> "r15"

alias_get(rg, prefix, alias)        == reg_get(rg, prefix, alias_target(alias))
alias_set(rg, prefix, alias, value) == reg_set(rg, prefix, alias_target(alias), value)

\* reg_getitem reading the register of the other view.
reg_getitem_other_view(rg, prefix, item) ==
    IF item \in 0..15
    THEN reg_get(rg, IF prefix = "arm9." THEN "arm7." ELSE "arm9.", "r" \o ToString(item))
    ELSE Result("error", <<>>, "Invalid register", <<>>)

\* RegisterAccessor.__getitem__: if item == i: return self.rI, for i in 0..15, else raise.
reg_getitem(rg, prefix, item) ==
    IF item \in 0..15
    THEN reg_get(rg, prefix, "r" \o ToString(item))
    ELSE Result("error", <<>>, "Invalid register", <<>>)

\* reg_setitem returning after the write of a valid item.
reg_setitem_returning(rg, prefix, item, value) ==
    IF item \in 0..15
    THEN reg_set(rg, prefix, "r" \o ToString(item), value)
    ELSE RegResult(rg, "Invalid register", <<>>)

\* RegisterAccessor.__setitem__: if item == i: self.rI = value, for i in 0..15, with no
\* return after any of them; the raise at the end is reached for every item.
reg_setitem(rg, prefix, item, value) ==
    LET done == IF item \in 0..15
                THEN reg_set(rg, prefix, "r" \o ToString(item), value)
                ELSE RegResult(rg, "", <<>>)
    IN  RegResult(done.regs, "Invalid register", done.calls)

----------------------------------------------------------------------------
(* Watchpoints: register_write / register_read / register_exec              *)

Kinds == {"write", "read", "exec"}

\* callback=None, and the null function pointer ctypes passes for it.
NoCallback == "None"
NullCb     == [id |-> 0, fn |-> NoCallback]

\* MEMORY_CB_FN(callback): a new native-callable object around the callback.
MEMORY_CB_FN(id, callback) == [id |-> id, fn |-> callback]

\* A native watchpoint slot: the installed trampoline (NullCb for none) and its span.
Hook(cb, size) == [cb |-> cb, size |-> size]

\* The native registration entry points: install cb (or remove, for the null pointer)
\* as the one watchpoint of that kind at that address.
desmume_memory_register_write(h, address, size, cb) ==
    [h EXCEPT ![<<"write", address>>] = Hook(cb, size)]
desmume_memory_register_read(h, address, size, cb) ==
    [h EXCEPT ![<<"read", address>>] = Hook(cb, size)]
desmume_memory_register_exec(h, address, size, cb) ==
    [h EXCEPT ![<<"exec", address>>] = Hook(cb, size)]

\* One native registration call as the library sees it.
RegCall(fn, address, size, cb) == [fn |-> fn, addr |-> address, size |-> size, cb |-> cb]

\* What a registration leaves behind.
WatchResult(h, cbs, n, calls) == [hooks |-> h, cbs |-> cbs, next_cb |-> n, calls |-> calls]

\* casted_cbfn = callback; if callback is not None: casted_cbfn = MEMORY_CB_FN(callback)
casted_cbfn(n, callback) ==
    IF callback # NoCallback THEN MEMORY_CB_FN(n, callback) ELSE NullCb

\* retained releasing the owned trampolines on a clearing call.
retained_released_on_clear(cbs, n, callback) ==
    IF callback # NoCallback THEN Append(cbs, MEMORY_CB_FN(n, callback)) ELSE <<>>

\* retained keeping the newest trampoline only.
retained_latest_only(cbs, n, callback) ==
    IF callback # NoCallback THEN <<MEMORY_CB_FN(n, callback)>> ELSE cbs

\* if callback is not None: self._registered_cbs.append(casted_cbfn)
retained(cbs, n, callback) ==
    IF callback # NoCallback THEN Append(cbs, MEMORY_CB_FN(n, callback)) ELSE cbs

\* register_write making no native call when the callback is None.
register_write_keeps_old(h, cbs, n, address, callback, size) ==
    IF callback = NoCallback
    THEN WatchResult(h, cbs, n, <<>>)
    ELSE LET cb == casted_cbfn(n, callback)
         IN  WatchResult(desmume_memory_register_write(h, address, size, cb),
                         retained(cbs, n, callback), n + 1,
                         <<RegCall("register_write", address, size, cb)>>)

register_write(h, cbs, n, address, callback, size) ==
    LET cb == casted_cbfn(n, callback)
    IN  WatchResult(desmume_memory_register_write(h, address, size, cb),
                    retained(cbs, n, callback),
                    IF callback # NoCallback THEN n + 1 ELSE n,
                    <<RegCall("register_write", address, size, cb)>>)

\* register_read forwarding to the write entry point.
register_read_as_write(h, cbs, n, address, callback, size) ==
    LET cb == casted_cbfn(n, callback)
    IN  WatchResult(desmume_memory_register_write(h, address, size, cb),
                    retained(cbs, n, callback),
                    IF callback # NoCallback THEN n + 1 ELSE n,
                    <<RegCall("register_write", address, size, cb)>>)

register_read(h, cbs, n, address, callback, size) ==
    LET cb == casted_cbfn(n, callback)
    IN  WatchResult(desmume_memory_register_read(h, address, size, cb),
                    retained(cbs, n, callback),
                    IF callback # NoCallback THEN n + 1 ELSE n,
                    <<RegCall("register_read", address, size, cb)>>)

register_exec(h, cbs, n, address, callback, size) ==
    LET cb == casted_cbfn(n, callback)
    IN  WatchResult(desmume_memory_register_exec(h, address, size, cb),
                    retained(cbs, n, callback),
                    IF callback # NoCallback THEN n + 1 ELSE n,
                    <<RegCall("register_exec", address, size, cb)>>)

\* The native side reaching the watchpoint of a kind at an address: the trampolines it calls.
fired(h, kind, address) ==
    IF h[<<kind, address>>].cb = NullCb THEN <<>> ELSE <<h[<<kind, address>>].cb>>

----------------------------------------------------------------------------
(* DeSmuME_Input keypad, DeSmuME.resume / pause                             *)

RECURSIVE BitOr(_, _)
\* a | b on Python integers (two's complement of unbounded width)
BitOr(a, b) ==
    IF a = 0 THEN b
    ELSE IF b = 0 THEN a
    ELSE IF a = -1 \/ b = -1 THEN -1
    ELSE (IF a % 2 = 1 \/ b % 2 = 1 THEN 1 ELSE 0) + 2 * BitOr(a \div 2, b \div 2)

RECURSIVE BitAndNot(_, _)
\* a & ~b on Python integers (two's complement of unbounded width)
BitAndNot(a, b) ==
    IF a = 0 \/ b = -1 THEN 0
    ELSE IF a = -1 /\ b = 0 THEN -1
    ELSE (IF a % 2 = 1 /\ b % 2 = 0 THEN 1 ELSE 0) + 2 * BitAndNot(a \div 2, b \div 2)

\* rm_key without the complement: keypad & key.
rm_key_no_complement(kp, key) == kp - BitAndNot(kp, key)

\* controls.add_key, controls.rm_key, controls.keymask
add_key(kp, key) == BitOr(kp, key)
rm_key(kp, key)  == BitAndNot(kp, key)
keymask(k)       == IF k > 0 THEN Pow2(k - 1) ELSE 0

\* DeSmuME_Input.keypad_update: argtypes [c_uint16]; the native keypad word becomes keys.
keypad_update(kp, keys) == c_uint16(keys)

\* What the upper half of the result register can hold when the native keypad_get
\* returns its 16-bit word: nothing, a stray bit, all ones.
HighHalves == {0, 1, Pow2(LongBits - 16) - 1}

\* DeSmuME_Input.keypad_get: it sets restype = c_uint16 on desmume_input_keypad_update,
\* not on desmume_input_keypad_get, whose 16-bit result is therefore taken as the default
\* c_int: the keypad word below whatever the upper half of the register holds.
keypad_get(kp, hi) == c_int(kp + 65536 * hi)

keypad_add_key(kp, key, hi) == keypad_update(kp, add_key(keypad_get(kp, hi), key))
keypad_rm_key(kp, key, hi)  == keypad_update(kp, rm_key(keypad_get(kp, hi), key))

\* DeSmuME.resume: if keep_keypad: self.input.keypad_update(0); then desmume_resume().
resume_keypad(kp, keep_keypad) == IF keep_keypad THEN keypad_update(kp, 0) ELSE kp

\* The four joystick methods that need an initialized joystick.
JoyMethods == {"joy_number_connected", "joy_get_key", "joy_get_set_key", "joy_set_key"}

\* joy_number_connected / joy_get_key / joy_get_set_key / joy_set_key:
\* if self.has_joy: forward to the native function; raise ValueError otherwise.
joy_call(hj, method, index) ==
    IF hj
    THEN [err |-> "", calls |-> <<Call(method, index, 0)>>]
    ELSE [err |-> "Joystick not initialized.", calls |-> <<>>]

----------------------------------------------------------------------------
(* DeSmuME_Memory.read_string                                               *)

\* max_len = 50; string_buff = bytearray(max_len)
InitialLen == 50
\* max_len += 50; string_buff += bytearray(50)
GrowBy == 50

\* bytearray(n): n zero bytes
bytearray(n) == [k \in 1..n |-> 0]

\* The code points one byte decodes to under a codec, <<>> where the codec defines
\* none (errors='ignore' drops the byte).  A part of the tables of the two codecs:
\* ASCII below 128; in windows-1255, 128 is the euro sign, 224 is alef, 129 is undefined.
code_points(codec, b) ==
    IF b < 128 THEN <<b>>
    ELSE IF codec = "windows-1255" /\ b = 128 THEN <<8364>>
    ELSE IF codec = "windows-1255" /\ b = 224 THEN <<1488>>
    ELSE <<>>

RECURSIVE decode(_, _)
\* str(bytes, codec, 'ignore'), as the sequence of the string's code points
decode(codec, bs) ==
    IF bs = <<>> THEN <<>> ELSE code_points(codec, Head(bs)) \o decode(codec, Tail(bs))

\* default_config_keyboard: the Gdk key value of each emulator key, KEY_A first.
default_config_keyboard ==
    <<120, 122, 65506, 65293, 65363, 65361, 65362, 65364, 119, 113, 115, 97, 112, 111, 65288>>

\* Keys.NB_KEYS: the keys are numbered 1 (KEY_A) to 15 (KEY_LID).
NB_KEYS == 15
\* Keys.KEY_BOOST
KEY_BOOST == 14

\* MainController.__init__: the attributes the handlers below change.  _keyboard_cfg is
\* load_configured_config(emu)'s keyboard part, which is default_config_keyboard.
MainController_init ==
    [_keyboard_cfg |-> default_config_keyboard,
     _boost |-> FALSE, _save_fs |-> 0, _frameskip |-> 0, _boost_fs |-> 20,
     _registered_main_loop |-> FALSE, _fs_frame_count |-> 0]

RECURSIVE lookup_from(_, _, _)
\* for i in range(i, Keys.NB_KEYS): if keyval == cfg[i]: key = keymask(i); break
lookup_from(cfg, keyval, i) ==
    IF i >= NB_KEYS THEN 0
    ELSE IF keyval = cfg[i + 1] THEN keymask(i)
    ELSE lookup_from(cfg, keyval, i + 1)

\* MainController.lookup_key: key = False; the loop from i = 0; return key.  False is 0.
lookup_key(cfg, keyval) == lookup_from(cfg, keyval, 0)

\* read_string's frame before a call.
rs_idle ==
    [pc |-> "idle", address |-> 0, codec |-> "", max_len |-> 0, string_buff |-> <<>>,
     i |-> 0, cur_byte |-> 0, nreads |-> 0, result |-> <<>>]

\* From the call to the first test of the while loop.
read_string_enter(m, address, codec) ==
    [pc |-> "loop", address |-> address, codec |-> codec,
     max_len |-> InitialLen, string_buff |-> bytearray(InitialLen),
     i |-> 0, cur_byte |-> acc_read_byte(m, FALSE, address).val[1],
     nreads |-> 1, result |-> <<>>]

\* grown testing i > max_len.
grown_late(f) ==
    IF f.i > f.max_len
    THEN [f EXCEPT !.max_len = f.max_len + GrowBy,
                   !.string_buff = f.string_buff \o bytearray(GrowBy)]
    ELSE f

\* if i >= max_len: grow the buffer
grown(f) ==
    IF f.i >= f.max_len
    THEN [f EXCEPT !.max_len = f.max_len + GrowBy,
                   !.string_buff = f.string_buff \o bytearray(GrowBy)]
    ELSE f

\* read_string_body reading the next byte at address + i before i is incremented.
read_string_body_same_byte(m, f) ==
    LET g == grown(f)
    IN  [g EXCEPT !.string_buff = [g.string_buff EXCEPT ![g.i + 1] = g.cur_byte],
                  !.i = g.i + 1,
                  !.cur_byte = acc_read_byte(m, FALSE, g.address + g.i).val[1],
                  !.nreads = g.nreads + 1]

\* One pass of the while body, taken when cur_byte != 0.
read_string_body(m, f) ==
    LET g == grown(f)
    IN  [g EXCEPT !.string_buff = [g.string_buff EXCEPT ![g.i + 1] = g.cur_byte],
                  !.i = g.i + 1,
                  !.cur_byte = acc_read_byte(m, FALSE, g.address + g.i + 1).val[1],
                  !.nreads = g.nreads + 1]

\* read_string_return decoding one byte more, the terminator.
read_string_return_with_zero(f) ==
    [f EXCEPT !.pc = "done", !.result = decode(f.codec, SubSeq(f.string_buff, 1, f.i + 1))]

\* return str(memoryview(string_buff)[:i], codec, 'ignore')
read_string_return(f) ==
    [f EXCEPT !.pc = "done", !.result = decode(f.codec, SubSeq(f.string_buff, 1, f.i))]

----------------------------------------------------------------------------
(* Initial states.  Each specification starts its own part of the state    *)
(* from the values below and leaves the rest untouched.                     *)

\* The bytes the enumerated memories hold: zero, a small byte, a byte with its top bit set.
CellVals == {0, 5, 250}

\* Every memory of MemSize cells over CellVals.
ReadMems == [1..MemSize -> CellVals]

\* The memories writes start from.
WriteMems == {[k \in 1..MemSize |-> 0], [k \in 1..MemSize |-> 255],
              [k \in 1..MemSize |-> k]}

\* The memories read_string scans: "Hello", an empty string, bytes a codec drops or
\* maps above 127, a string longer than the initial buffer, and memories with no zero.
StrMems == {<<72, 101, 108, 108, 111, 0, 65, 0>>,
            <<0, 72, 0>>,
            <<129, 65, 128, 224, 0, 255>>,
            [k \in 1..(InitialLen + 6) |-> IF k = InitialLen + 4 THEN 0 ELSE 64 + (k % 7)],
            <<1, 2, 3>>}

StrCodecs == {"windows-1255", "ascii"}

\* The values written: small, above a signed byte, above a byte, above a short,
\* above the 4-byte range, negative.
Values == {5, 200, 300, 70000, Pow2(LongBits) + 5, -1}

\* The value arguments of write: [v], [], and lists for ranges.
ValueSeqs == {<<v>> : v \in Values} \cup
             {<<>>, <<300, -1>>,
              [k \in 1..(MaxSpan + 1) |-> IF k = 2 THEN 70000 ELSE 250 + k]}

\* Sizes passed: None, the valid 1, 2, 4 and the invalid 0, 3, 5.
Sizes == {None, 0, 1, 2, 3, 4, 5}

Starts == 0..MaxStart
Spans  == -1..MaxSpan

FullNames == {p \o n : p \in Prefixes, n \in RegNames}
RegValues == {7, -3, Pow2(LongBits - 1), Pow2(LongBits) + 9}
RegItems  == -1..16

WatchAddrs == {16, 32}
Callbacks  == {NoCallback, "f", "g"}
WatchSizes == {1, 2, 4}

KeypadInputs == {0, 5, 65535, 65536 + 3}
ModelKeys    == {0, 1, 2, 15}

NoOp == [op |-> "none"]

\* The key values of key events: the keys configured for A, B, Boost and Lid, and a
\* key configured for nothing.
KeyVals == {120, 122, 111, 65288, 7}

\* The values of the frameskip menu items.
FrameskipChoices == {0, 1, 3}

\* Everything but the memory, before any call.
RestIdle == /\ regs = [n \in FullNames |-> 0]
            /\ hooks = [s \in Kinds \X WatchAddrs |-> Hook(NullCb, 0)]
            /\ _registered_cbs = <<>>
            /\ next_cb = 1
            /\ invoked = <<>> /\ stack = <<>>
            /\ keypad = 0 /\ running = FALSE
            /\ has_joy = FALSE /\ joy_on = FALSE
            /\ rs = rs_idle
            /\ ctl = MainController_init /\ idle_sources = 0 /\ chosen_fs = 0
            /\ nops = 0 /\ last = NoOp

\* A zeroed memory and no call made.
Idle == mem = [k \in 1..MemSize |-> 0] /\ RestIdle

----------------------------------------------------------------------------
(* Memory reads.  A read leaves the memory as it is, so each behaviour      *)
(* makes one read of an arbitrary memory.                                   *)

DoRead ==
    \E start \in Starts, d \in Spans, size \in Sizes, signed \in BOOLEAN :
        /\ last.op = "none"
        /\ last' = [op |-> "read", start |-> start, end |-> start + d, size |-> size,
                    signed |-> signed, res |-> read(mem, start, start + d, size, signed)]
        /\ UNCHANGED <<ctlVars, memVars, regVars, watchVars, inputVars, strVars, nops>>

InitRead == /\ mem \in ReadMems
            /\ RestIdle
NextRead == DoRead
SpecRead == InitRead /\ [][NextRead]_vars

----------------------------------------------------------------------------
(* Memory writes: one write (or write_byte / write_short / write_long).      *)

\* The record of a write call: its arguments, the memory before, what it raised, its calls.
Written(op, start, end, size, value, w) ==
    [op |-> op, start |-> start, end |-> end, size |-> size, value |-> value,
     pre |-> mem, err |-> w.err, calls |-> w.calls]

DoWrite ==
    \E start \in Starts, d \in Spans, size \in Sizes, value \in ValueSeqs :
        LET w == write(mem, start, start + d, size, value)
        IN  /\ last.op = "none"
            /\ mem' = w.mem
            /\ nops' = nops + 1
            /\ last' = Written("write", start, start + d, size, value, w)
            /\ UNCHANGED <<ctlVars, regVars, watchVars, inputVars, strVars>>

DoWriteByte ==
    \E addr \in Starts, v \in Values :
        LET w == write_byte(mem, addr, v)
        IN  /\ last.op = "none"
            /\ mem' = w.mem
            /\ nops' = nops + 1
            /\ last' = Written("write_byte", addr, addr, 1, <<v>>, w)
            /\ UNCHANGED <<ctlVars, regVars, watchVars, inputVars, strVars>>

DoWriteShort ==
    \E addr \in Starts, v \in Values :
        LET w == write_short(mem, addr, v)
        IN  /\ last.op = "none"
            /\ mem' = w.mem
            /\ nops' = nops + 1
            /\ last' = Written("write_short", addr, addr, 2, <<v>>, w)
            /\ UNCHANGED <<ctlVars, regVars, watchVars, inputVars, strVars>>

DoWriteLong ==
    \E addr \in Starts, v \in Values :
        LET w == write_long(mem, addr, v)
        IN  /\ last.op = "none"
            /\ mem' = w.mem
            /\ nops' = nops + 1
            /\ last' = Written("write_long", addr, addr, 4, <<v>>, w)
            /\ UNCHANGED <<ctlVars, regVars, watchVars, inputVars, strVars>>

\* The record of a read through a MemoryAccessor: the read it stands for and its result.
AccRead(op, signed, start, end, size, r) ==
    [op |-> op, signed |-> signed, start |-> start, end |-> end, size |-> size, res |-> r]

\* accessor[key] with an int key, and accessor[start:stop:step] (step None when omitted)
AccGetItem ==
    \E signed \in BOOLEAN, start \in Starts :
        /\ last.op = "none"
        /\ \/ last' = AccRead("acc_getitem", signed, start, start, 1,
                              acc_getitem_int(mem, signed, start))
           \/ \E d \in Spans, step \in Sizes :
                  last' = AccRead("acc_slice", signed, start, start + d, step,
                                  acc_getitem_slice(mem, signed, start, start + d, step))
        /\ UNCHANGED <<ctlVars, memVars, regVars, watchVars, inputVars, strVars, nops>>

\* accessor.read_byte(addr), accessor.read_short(addr), accessor.read_long(addr)
AccReadUnit ==
    \E signed \in BOOLEAN, addr \in Starts :
        /\ last.op = "none"
        /\ \/ last' = AccRead("acc_read_byte", signed, addr, addr, 1,
                              acc_read_byte(mem, signed, addr))
           \/ last' = AccRead("acc_read_short", signed, addr, addr, 2,
                              acc_read_short(mem, signed, addr))
           \/ last' = AccRead("acc_read_long", signed, addr, addr, 4,
                              acc_read_long(mem, signed, addr))
        /\ UNCHANGED <<ctlVars, memVars, regVars, watchVars, inputVars, strVars, nops>>

\* The record of a write through a MemoryAccessor.
AccWritten(op, signed, start, end, size, value, w) ==
    [op |-> op, signed |-> signed, start |-> start, end |-> end, size |-> size,
     value |-> value, pre |-> mem, err |-> w.err, calls |-> w.calls]

\* accessor[key] = value with an int key, and accessor[start:stop:step] = value
AccSetItem ==
    \E signed \in BOOLEAN, start \in Starts :
        /\ last.op = "none"
        /\ \/ \E v \in Values :
                  LET w == acc_setitem_int(mem, signed, start, v)
                  IN  /\ mem' = w.mem
                      /\ last' = AccWritten("acc_setitem", signed, start, start, 1, <<v>>, w)
           \/ \E d \in Spans, step \in Sizes, value \in ValueSeqs :
                  LET w == acc_setitem_slice(mem, signed, start, start + d, step, value)
                  IN  /\ mem' = w.mem
                      /\ last' = AccWritten("acc_setslice", signed, start, start + d, step,
                                            value, w)
        /\ nops' = nops + 1
        /\ UNCHANGED <<ctlVars, regVars, watchVars, inputVars, strVars>>

\* One call, a read or a write, of a memory.
InitMem == /\ mem \in WriteMems
           /\ RestIdle
NextMem == \/ DoRead \/ DoWrite \/ DoWriteByte \/ DoWriteShort \/ DoWriteLong
           \/ AccGetItem \/ AccReadUnit \/ AccSetItem
SpecMem == InitMem /\ [][NextMem]_vars

----------------------------------------------------------------------------
(* Registers.  Up to MaxRegSets setter calls, then one getter call.         *)

RegGetOps == {"getitem", "alias_get", "prop_get"}

\* No getter was called yet: a getter leaves the registers as they are.
RegOpen == last.op \notin RegGetOps

\* The record of a setter call by register name.
RegWritten(op, prefix, name, value, w) ==
    [op |-> op, prefix |-> prefix, name |-> name, value |-> value,
     pre |-> regs, err |-> w.err, calls |-> w.calls]

\* The record of a setter call by register number.
RegItemWritten(prefix, item, value, w) ==
    [op |-> "setitem", prefix |-> prefix, item |-> item, value |-> value,
     pre |-> regs, err |-> w.err, calls |-> w.calls]

\* view[item] = value
RegSetItem ==
    \E prefix \in Prefixes, item \in RegItems, value \in RegValues :
        LET w == reg_setitem(regs, prefix, item, value)
        IN  /\ RegOpen /\ nops < MaxRegSets
            /\ regs' = w.regs
            /\ nops' = nops + 1
            /\ last' = RegItemWritten(prefix, item, value, w)
            /\ UNCHANGED <<ctlVars, memVars, watchVars, inputVars, strVars>>

\* view.sp = value, view.lr = value, view.pc = value
RegAliasSet ==
    \E prefix \in Prefixes, alias \in {"sp", "lr", "pc"}, value \in RegValues :
        LET w == alias_set(regs, prefix, alias, value)
        IN  /\ RegOpen /\ nops < MaxRegSets
            /\ regs' = w.regs
            /\ nops' = nops + 1
            /\ last' = RegWritten("alias_set", prefix, alias, value, w)
            /\ UNCHANGED <<ctlVars, memVars, watchVars, inputVars, strVars>>

\* view.rX = value, view.cpsr = value, view.spsr = value
RegPropSet ==
    \E prefix \in Prefixes, name \in RegNames, value \in RegValues :
        LET w == reg_set(regs, prefix, name, value)
        IN  /\ RegOpen /\ nops < MaxRegSets
            /\ regs' = w.regs
            /\ nops' = nops + 1
            /\ last' = RegWritten("prop_set", prefix, name, value, w)
            /\ UNCHANGED <<ctlVars, memVars, watchVars, inputVars, strVars>>

\* The record of a getter call by register name; set is the setter call before it.
RegRead(op, prefix, name, r) ==
    [op |-> op, prefix |-> prefix, name |-> name, res |-> r, set |-> last]

\* The record of a getter call by register number.
RegItemRead(prefix, item, r) ==
    [op |-> "getitem", prefix |-> prefix, item |-> item, res |-> r, set |-> last]

\* view[item]
RegGetItem ==
    \E prefix \in Prefixes, item \in RegItems :
        /\ RegOpen
        /\ last' = RegItemRead(prefix, item, reg_getitem(regs, prefix, item))
        /\ UNCHANGED <<ctlVars, memVars, regVars, watchVars, inputVars, strVars, nops>>

\* view.sp, view.lr, view.pc
RegAliasGet ==
    \E prefix \in Prefixes, alias \in {"sp", "lr", "pc"} :
        /\ RegOpen
        /\ last' = RegRead("alias_get", prefix, alias, alias_get(regs, prefix, alias))
        /\ UNCHANGED <<ctlVars, memVars, regVars, watchVars, inputVars, strVars, nops>>

\* view.rX, view.cpsr, view.spsr
RegPropGet ==
    \E prefix \in Prefixes, name \in RegNames :
        /\ RegOpen
        /\ last' = RegRead("prop_get", prefix, name, reg_get(regs, prefix, name))
        /\ UNCHANGED <<ctlVars, memVars, regVars, watchVars, inputVars, strVars, nops>>

NextReg == RegSetItem \/ RegAliasSet \/ RegPropSet \/ RegGetItem \/ RegAliasGet \/ RegPropGet
SpecReg == Idle /\ [][NextReg]_vars

----------------------------------------------------------------------------
(* Watchpoints.  Up to MaxRegistrations registration calls, then the native *)
(* side reaches one watchpoint.                                             *)

\* The frame of DeSmuME.cycle, inside self.lib.desmume_cycle(with_joystick).
CycleFrame == [id |-> 0, fn |-> "cycle"]

\* Python code of the thread is running, so that it can call the facade: no call is in
\* progress, or the innermost one is a callback (not the foreign call desmume_cycle).
PythonRuns == IF stack = <<>> THEN TRUE ELSE stack[Len(stack)] # CycleFrame

\* The record of a registration call.
Registered(op, address, callback, size, w) ==
    [op |-> op, addr |-> address, callback |-> callback, size |-> size,
     pre |-> hooks, pre_cbs |-> _registered_cbs, calls |-> w.calls, prev |-> last.op]

\* The size parameter of a registration call as the method body sees it: size=1 in the
\* signatures of register_write and register_read, size=2 in that of register_exec.
span_size(kind, size) == IF size = None THEN (IF kind = "exec" THEN 2 ELSE 1) ELSE size

\* The state after a registration call.
Installed(w) ==
    /\ PythonRuns
    /\ hooks' = w.hooks
    /\ _registered_cbs' = w.cbs
    /\ next_cb' = w.next_cb
    /\ nops' = nops + 1
    /\ UNCHANGED <<ctlVars, memVars, regVars, inputVars, strVars, invoked, stack>>

RegisterWrite ==
    \E address \in WatchAddrs, callback \in Callbacks, size \in WatchSizes \cup {None} :
        LET w == register_write(hooks, _registered_cbs, next_cb, address, callback,
                                span_size("write", size))
        IN  /\ last.op # "trigger" /\ nops < MaxRegistrations
            /\ Installed(w)
            /\ last' = Registered("register_write", address, callback, size, w)

RegisterRead ==
    \E address \in WatchAddrs, callback \in Callbacks, size \in WatchSizes \cup {None} :
        LET w == register_read(hooks, _registered_cbs, next_cb, address, callback,
                                span_size("read", size))
        IN  /\ last.op # "trigger" /\ nops < MaxRegistrations
            /\ Installed(w)
            /\ last' = Registered("register_read", address, callback, size, w)

RegisterExec ==
    \E address \in WatchAddrs, callback \in Callbacks, size \in WatchSizes \cup {None} :
        LET w == register_exec(hooks, _registered_cbs, next_cb, address, callback,
                                span_size("exec", size))
        IN  /\ last.op # "trigger" /\ nops < MaxRegistrations
            /\ Installed(w)
            /\ last' = Registered("register_exec", address, callback, size, w)

\* The emulated program writes, reads or executes a watched address: the native side
\* calls the trampoline installed for it.
Trigger ==
    \E kind \in Kinds, address \in WatchAddrs :
        /\ last.op # "trigger"
        /\ invoked' = fired(hooks, kind, address)
        /\ last' = [op |-> "trigger", kind |-> kind, addr |-> address, reg |-> last]
        /\ UNCHANGED <<ctlVars, memVars, regVars, inputVars, strVars, nops,
                       hooks, _registered_cbs, next_cb, stack>>

NextWatch == RegisterWrite \/ RegisterRead \/ RegisterExec \/ Trigger
SpecWatch == Idle /\ [][NextWatch]_vars

----------------------------------------------------------------------------
(* A cycle step and the callback the native side makes during it: the model *)
(* follows a behaviour up to its first callback and that callback's return. *)

\* desmume_cycle returning with callback frames still above it.
desmume_cycle_returns_early(st) == IF st = <<>> THEN FALSE ELSE st[1] = CycleFrame

\* The foreign call desmume_cycle returns when it is the innermost call in progress.
desmume_cycle_returns(st) == st = <<CycleFrame>>

\* DeSmuME.cycle: self.lib.desmume_cycle(with_joystick); the native side runs.
CycleCall ==
    /\ stack = <<>> /\ invoked = <<>>
    /\ stack' = <<CycleFrame>>
    /\ last' = [op |-> "cycle"]
    /\ UNCHANGED <<ctlVars, memVars, regVars, inputVars, strVars, nops,
                   hooks, _registered_cbs, next_cb, invoked>>

\* The emulated program reaches a watchpoint during the cycle: the native side calls
\* the installed trampoline, which runs the callback on top of the cycle call.
NativeHit ==
    \E kind \in Kinds, address \in WatchAddrs :
        /\ stack = <<CycleFrame>> /\ invoked = <<>>
        /\ fired(hooks, kind, address) # <<>>
        /\ stack' = stack \o fired(hooks, kind, address)
        /\ invoked' = invoked \o fired(hooks, kind, address)
        /\ last' = [op |-> "callback"]
        /\ UNCHANGED <<ctlVars, memVars, regVars, inputVars, strVars, nops,
                       hooks, _registered_cbs, next_cb>>

\* The running callback reads the memory through the facade.
CallbackRead ==
    \E address \in Starts :
        /\ stack # <<>> /\ PythonRuns /\ last.op # "read"
        /\ last' = [op |-> "read", start |-> address, end |-> address, size |-> 1,
                    signed |-> FALSE, res |-> read(mem, address, address, 1, FALSE)]
        /\ UNCHANGED <<ctlVars, memVars, regVars, watchVars, inputVars, strVars, nops>>

\* The running callback returns to the native side.
CallbackReturn ==
    /\ stack # <<>> /\ PythonRuns
    /\ stack' = SubSeq(stack, 1, Len(stack) - 1)
    /\ last' = [op |-> "callback_return"]
    /\ UNCHANGED <<ctlVars, memVars, regVars, inputVars, strVars, nops,
                   hooks, _registered_cbs, next_cb, invoked>>

\* desmume_cycle returns and with it DeSmuME.cycle.
CycleReturn ==
    /\ desmume_cycle_returns(stack)
    /\ stack' = SubSeq(stack, 2, Len(stack))
    /\ last' = [op |-> "cycle_return"]
    /\ UNCHANGED <<ctlVars, memVars, regVars, inputVars, strVars, nops,
                   hooks, _registered_cbs, next_cb, invoked>>

NextCycle == \/ RegisterWrite \/ RegisterRead \/ RegisterExec
             \/ CycleCall \/ NativeHit \/ CallbackRead \/ CallbackReturn \/ CycleReturn
SpecCycle == Idle /\ [][NextCycle]_vars

----------------------------------------------------------------------------
(* The frontend: MainController's handlers, each run to its end by the GLib *)
(* main loop, one at a time.                                                *)

\* The record of a handler: the key value it was given, the key lookup_key found, the
\* keypad and the running flag it started with, and what it returned.
Handled(op, keyval, mods, key, ret) ==
    [op |-> op, keyval |-> keyval, mods |-> mods, key |-> key, ret |-> ret,
     pre |-> keypad, was_running |-> running]

\* CtlResume scheduling a handler whatever _registered_main_loop says.
CtlResume_always_adds ==
    /\ keypad' = resume_keypad(keypad, FALSE)
    /\ running' = TRUE
    /\ ctl' = [ctl EXCEPT !._registered_main_loop = TRUE]
    /\ idle_sources' = idle_sources + 1
    /\ idle_sources < 3
    /\ last' = Handled("resume", 0, FALSE, 0, FALSE)
    /\ UNCHANGED <<memVars, regVars, watchVars, strVars, nops, has_joy, joy_on, chosen_fs>>

\* MainController.resume: self.emu.resume(); if not self._registered_main_loop:
\* self._registered_main_loop = True; GLib.idle_add(self.emu_cycle)
CtlResume ==
    /\ keypad' = resume_keypad(keypad, FALSE)
    /\ running' = TRUE
    /\ IF ~ctl._registered_main_loop
       THEN /\ ctl' = [ctl EXCEPT !._registered_main_loop = TRUE]
            /\ idle_sources' = idle_sources + 1
       ELSE UNCHANGED <<ctl, idle_sources>>
    /\ last' = Handled("resume", 0, FALSE, 0, FALSE)
    /\ UNCHANGED <<memVars, regVars, watchVars, strVars, nops, has_joy, joy_on, chosen_fs>>

\* MainController.on_menu_pause_activate: self.emu.pause()
CtlPause ==
    /\ running' = FALSE
    /\ last' = Handled("pause", 0, FALSE, 0, FALSE)
    /\ UNCHANGED <<memVars, regVars, watchVars, strVars, ctlVars, nops, keypad, has_joy, joy_on>>

\* MainController.emu_cycle, called by the main loop for a scheduled idle handler.
\* Running: count the frame, cycle, return True (stay scheduled).  Not running: clear
\* _registered_main_loop and return False, which removes the handler.  The fps counter
\* and the frame limiter in between read the native tick counter and change neither
\* the scheduling nor the frameskip; they are not followed.
EmuCycle ==
    /\ idle_sources > 0
    /\ IF running
       THEN /\ ctl._fs_frame_count < MaxFrames
            /\ ctl' = [ctl EXCEPT !._fs_frame_count = @ + 1]
            /\ UNCHANGED idle_sources
       ELSE /\ ctl' = [ctl EXCEPT !._registered_main_loop = FALSE]
            /\ idle_sources' = idle_sources - 1
    /\ last' = Handled("emu_cycle", 0, FALSE, 0, running)
    /\ UNCHANGED <<memVars, regVars, watchVars, strVars, nops, inputVars, chosen_fs>>

\* MainController.on_wMainW_key_press_event: without modifiers, the Boost key toggles
\* boost (saving and restoring the frameskip), any other configured key is pressed on
\* the keypad if the emulator is running.
KeyPress ==
    \E keyval \in KeyVals, mods \in BOOLEAN, hi \in HighHalves :
        LET key == lookup_key(ctl._keyboard_cfg, keyval)
        IN  IF ~mods /\ keyval = ctl._keyboard_cfg[KEY_BOOST]
            THEN /\ ctl' = IF ~ctl._boost
                           THEN [ctl EXCEPT !._boost = TRUE, !._save_fs = ctl._frameskip,
                                            !._frameskip = ctl._boost_fs]
                           ELSE [ctl EXCEPT !._boost = FALSE, !._frameskip = ctl._save_fs]
                 /\ last' = Handled("key_press", keyval, mods, key, TRUE)
                 /\ UNCHANGED <<memVars, regVars, watchVars, strVars, nops, inputVars,
                                idle_sources, chosen_fs>>
            ELSE IF ~mods /\ key # 0 /\ running
            THEN /\ keypad' = keypad_add_key(keypad, key, hi)
                 /\ last' = Handled("key_press", keyval, mods, key, TRUE)
                 /\ UNCHANGED <<memVars, regVars, watchVars, strVars, ctlVars, nops,
                                running, has_joy, joy_on>>
            ELSE /\ last' = Handled("key_press", keyval, mods, key, FALSE)
                 /\ UNCHANGED <<memVars, regVars, watchVars, strVars, ctlVars, nops,
                                inputVars>>

\* MainController.on_wMainW_key_release_event
KeyRelease ==
    \E keyval \in KeyVals, hi \in HighHalves :
        LET key == lookup_key(ctl._keyboard_cfg, keyval)
        IN  /\ keypad' = IF key # 0 /\ running THEN keypad_rm_key(keypad, key, hi) ELSE keypad
            /\ last' = Handled("key_release", keyval, FALSE, key, FALSE)
            /\ UNCHANGED <<memVars, regVars, watchVars, strVars, ctlVars, nops,
                           running, has_joy, joy_on>>

\* MainController.on_fsXX_activate: self._frameskip = widget_to_primitive(w)
FsActivate ==
    \E fs \in FrameskipChoices :
        /\ ctl' = [ctl EXCEPT !._frameskip = fs]
        /\ chosen_fs' = fs
        /\ last' = Handled("fs_activate", fs, FALSE, 0, FALSE)
        /\ UNCHANGED <<memVars, regVars, watchVars, strVars, nops, inputVars, idle_sources>>

NextCtl == CtlResume \/ CtlPause \/ EmuCycle \/ KeyPress \/ KeyRelease \/ FsActivate
SpecCtl == Idle /\ [][NextCtl]_vars

----------------------------------------------------------------------------
(* Keypad, pause and resume.                                                *)

\* The record of an input call: the keypad before it.
Keyed(op, arg) ==
    [op |-> op, arg |-> arg, pre |-> keypad,
     pressed |-> IF last.op = "keypad_add_key" THEN last.arg ELSE -1,
     before  |-> IF last.op = "keypad_add_key" THEN last.pre ELSE -1]

KeypadUpdate ==
    \E keys \in KeypadInputs :
        /\ keypad' = keypad_update(keypad, keys)
        /\ last' = Keyed("keypad_update", keys)
        /\ UNCHANGED <<ctlVars, memVars, regVars, watchVars, strVars, nops, running, has_joy, joy_on>>

KeypadAddKey ==
    \E k \in ModelKeys, hi \in HighHalves :
        /\ keypad' = keypad_add_key(keypad, keymask(k), hi)
        /\ last' = Keyed("keypad_add_key", keymask(k))
        /\ UNCHANGED <<ctlVars, memVars, regVars, watchVars, strVars, nops, running, has_joy, joy_on>>

KeypadRmKey ==
    \E k \in ModelKeys, hi \in HighHalves :
        /\ keypad' = keypad_rm_key(keypad, keymask(k), hi)
        /\ last' = Keyed("keypad_rm_key", keymask(k))
        /\ UNCHANGED <<ctlVars, memVars, regVars, watchVars, strVars, nops, running, has_joy, joy_on>>

\* DeSmuME.pause
Pause ==
    /\ running' = FALSE
    /\ last' = [op |-> "pause", pre |-> keypad]
    /\ UNCHANGED <<ctlVars, memVars, regVars, watchVars, strVars, nops, keypad, has_joy, joy_on>>

\* DeSmuME.resume(keep_keypad)
Resume ==
    \E keep_keypad \in BOOLEAN :
        /\ keypad' = resume_keypad(keypad, keep_keypad)
        /\ running' = TRUE
        /\ last' = [op |-> "resume", keep_keypad |-> keep_keypad, pre |-> keypad]
        /\ UNCHANGED <<ctlVars, memVars, regVars, watchVars, strVars, nops, has_joy, joy_on>>

\* DeSmuME_Input.joy_init: if not self.has_joy: native init; self.has_joy = True
JoyInit ==
    /\ has_joy' = TRUE
    /\ joy_on' = (IF ~has_joy THEN TRUE ELSE joy_on)
    /\ last' = [op |-> "joy_init", had_joy |-> has_joy, was_on |-> joy_on,
                calls |-> IF ~has_joy THEN <<Call("joy_init", 0, 0)>> ELSE <<>>]
    /\ UNCHANGED <<ctlVars, memVars, regVars, watchVars, strVars, nops, keypad, running>>

\* DeSmuME_Input.joy_uninit: if self.has_joy: native uninit.  has_joy is left as it is.
JoyUninit ==
    /\ joy_on' = (IF has_joy THEN FALSE ELSE joy_on)
    /\ last' = [op |-> "joy_uninit", had_joy |-> has_joy, was_on |-> joy_on,
                calls |-> IF has_joy THEN <<Call("joy_uninit", 0, 0)>> ELSE <<>>]
    /\ UNCHANGED <<ctlVars, memVars, regVars, watchVars, strVars, nops, keypad, running, has_joy>>

\* DeSmuME_Input.__del__: if self.has_joy: self.joy_uninit().  DeSmuME.__del__ (and
\* destroy, which calls it) calls it by name; the interpreter calls it again when it
\* finalises the object.
InputDel ==
    /\ joy_on' = (IF has_joy THEN FALSE ELSE joy_on)
    /\ last' = [op |-> "__del__", had_joy |-> has_joy, was_on |-> joy_on,
                calls |-> IF has_joy THEN <<Call("joy_uninit", 0, 0)>> ELSE <<>>]
    /\ UNCHANGED <<ctlVars, memVars, regVars, watchVars, strVars, nops, keypad, running, has_joy>>

\* One of the four guarded joystick methods.
JoyCall ==
    \E method \in JoyMethods, index \in ModelKeys :
        LET r == joy_call(has_joy, method, index)
        IN  /\ last' = [op |-> method, had_joy |-> has_joy, was_on |-> joy_on,
                        err |-> r.err, calls |-> r.calls]
            /\ UNCHANGED <<ctlVars, memVars, regVars, watchVars, inputVars, strVars, nops>>

NextInput == \/ KeypadUpdate \/ KeypadAddKey \/ KeypadRmKey \/ Pause \/ Resume
             \/ JoyInit \/ JoyUninit \/ JoyCall \/ InputDel
SpecInput == Idle /\ [][NextInput]_vars

----------------------------------------------------------------------------
(* read_string, one pass of its loop at a time.                             *)

ReadStringCall ==
    \E address \in Starts, codec \in StrCodecs :
        /\ rs.pc = "idle"
        /\ rs' = read_string_enter(mem, address, codec)
        /\ last' = [op |-> "read_string"]
        /\ UNCHANGED <<ctlVars, memVars, regVars, watchVars, inputVars, nops>>

\* while cur_byte != 0: the body.  The model follows the scan for MaxScan bytes.
ReadStringBody ==
    /\ rs.pc = "loop" /\ rs.cur_byte # 0
    /\ rs.i < MaxScan
    /\ rs' = read_string_body(mem, rs)
    /\ UNCHANGED <<ctlVars, memVars, regVars, watchVars, inputVars, nops, last>>

\* cur_byte == 0: the loop ends and the method returns.
ReadStringReturn ==
    /\ rs.pc = "loop" /\ rs.cur_byte = 0
    /\ rs' = read_string_return(rs)
    /\ UNCHANGED <<ctlVars, memVars, regVars, watchVars, inputVars, nops, last>>

InitStr == /\ mem \in StrMems
           /\ RestIdle
NextStr == ReadStringCall \/ ReadStringBody \/ ReadStringReturn
SpecStr == InitStr /\ [][NextStr]_vars

\* read_string runs on the calling thread with nothing to wait for: a pass of the loop
\* or the return that can be taken is taken.
SpecStrLive == SpecStr /\ WF_vars(ReadStringBody) /\ WF_vars(ReadStringReturn)

----------------------------------------------------------------------------
(* Claims about read and write                                              *)

ValidSizes == {1, 2, 4}

\* v truncated to s bytes, as an unsigned integer.
Truncated(s, v) == v % Pow2(Bits(s))

\* C1: for every address a, size s in {1,2,4} and signedness, read(a, a, s, signed)
\* returns the value that is element 0 of read(a, a+s, s, signed) on the same memory.
C1_ScalarRangeDuality ==
    \A a \in Starts, s \in ValidSizes, sg \in BOOLEAN :
        LET one   == read(mem, a, a, s, sg)
            range == read(mem, a, a + s, s, sg)
        IN  /\ one.kind = "int"
            /\ range.kind \in {"bytes", "list"}
            /\ Len(range.val) >= 1
            /\ range.val[1] = one.val[1]

\* A signed 4-byte scalar read returned a negative value, the one the range read starts with.
C1_Witness ==
    /\ last.op = "read" /\ last.start = last.end /\ last.size = 4 /\ last.signed
    /\ last.res.kind = "int" /\ last.res.val[1] < 0
    /\ read(mem, last.start, last.start + 4, 4, TRUE).val = last.res.val

\* C2: after write(a, a, s, [v]) with s in {1,2,4}, read(a, a, s, signed=False)
\* returns v truncated to s bytes as an unsigned integer.
C2_WriteReadRoundTrip ==
    (last.op = "write" /\ last.start = last.end /\ last.size \in ValidSizes
        /\ Len(last.value) >= 1)
    => /\ last.err = ""
       /\ LET back == read(mem, last.start, last.start, last.size, FALSE)
          IN  back.kind = "int" /\ back.val[1] = Truncated(last.size, last.value[1])

\* A short written with a value above the 2-byte range reads back truncated.
C2_Witness ==
    /\ last.op = "write" /\ last.start = last.end /\ last.size = 2
    /\ last.value = <<70000>>
    /\ read(mem, last.start, last.start, 2, FALSE).val = <<70000 - 65536>>

\* C3: read(start, end, size, signed) with end < start returns an empty result (an
\* empty byte block for unsigned size 1, an empty list otherwise) and raises nothing,
\* for every size in {1,2,4} and both signedness values.
C3_EmptyWhenEndBelowStart ==
    (last.op = "read" /\ last.end < last.start /\ last.size \in ValidSizes)
    => /\ last.res.err = ""
       /\ last.res.val = <<>>
       /\ last.res.kind = (IF ~last.signed /\ last.size = 1 THEN "bytes" ELSE "list")

\* C4: read or write with a size outside {1,2,4} raises the invalid-size error with no
\* native call made, for equal and for unequal bounds; the memory is as it was.
\* (None is the omitted size of read, not a size: read takes it as 1.)
C4_InvalidSizeRejected ==
    /\ (last.op = "read" /\ last.size \notin ValidSizes /\ last.size # None)
       => /\ last.res.kind = "error"
          /\ last.res.err = "Invalid size."
          /\ last.res.calls = <<>>
    /\ (last.op = "write" /\ last.size \notin ValidSizes)
       => /\ last.err = "Invalid size."
          /\ last.calls = <<>>
          /\ mem = last.pre

\* write with size 3 and equal bounds was called with a value to write.
C4_Witness ==
    /\ last.op = "write" /\ last.size = 3 /\ last.start = last.end
    /\ last.value = <<5>> /\ last.err = "Invalid size."

\* C8: write(a, a, s, [v]) issues exactly one unit write of size s at address a, for
\* each s in {1,2,4}; write_byte, write_short and write_long each make one native write.
C8_WriteExactlyOne ==
    /\ (last.op = "write" /\ last.start = last.end /\ last.size \in ValidSizes
           /\ Len(last.value) >= 1)
       => last.calls = <<Call(CASE last.size = 1 -> "write_byte"
                                [] last.size = 2 -> "write_short"
                                [] last.size = 4 -> "write_long",
                              last.start, Truncated(last.size, last.value[1]))>>
    /\ last.op = "write_byte"
       => last.calls = <<Call("write_byte", last.start, Truncated(1, last.value[1]))>>
    /\ last.op = "write_short"
       => last.calls = <<Call("write_short", last.start, Truncated(2, last.value[1]))>>
    /\ last.op = "write_long"
       => last.calls = <<Call("write_long", last.start, Truncated(4, last.value[1]))>>

\* write_long made its one native write, of a negative value.
C8_Witness ==
    /\ last.op = "write_long" /\ last.value = <<-1>>
    /\ Len(last.calls) = 1 /\ last.calls[1].fn = "write_long"

\* C9: for signed=False and size 1, read(a, a+n, 1, False) with n > 0 returns a byte
\* block of exactly n bytes whose i-th byte is the unsigned byte read at a+i.
C9_ByteBlockIdentity ==
    (last.op = "read" /\ ~last.signed /\ last.size = 1 /\ last.end > last.start)
    => /\ last.res.kind = "bytes"
       /\ Len(last.res.val) = last.end - last.start
       /\ \A i \in 0..(last.end - last.start - 1) :
              last.res.val[i + 1] = read(mem, last.start + i, last.start + i, 1, FALSE).val[1]

\* A block of three or more bytes was read, not all of them equal.
C9_Witness ==
    /\ last.op = "read" /\ ~last.signed /\ last.size = 1 /\ last.end >= last.start + 3
    /\ last.res.kind = "bytes"
    /\ last.res.val[1] # last.res.val[2] /\ last.res.val[2] # last.res.val[3]

----------------------------------------------------------------------------
(* Claims about the register aliases                                        *)

\* The numbered register an alias stands for.
AliasIndex(alias) == CASE alias = "sp" -> 13 [] alias = "lr" -> 14 [] alias = "pc" -> 15

\* A getter call that follows a setter call of the same register of the same view:
\* view[13] = v then view.sp, or view.sp = v then view[13] (and lr / 14, pc / 15).
AliasReadAfterSet ==
    \/ /\ last.op = "alias_get" /\ last.set.op = "setitem"
       /\ last.set.prefix = last.prefix /\ last.set.item = AliasIndex(last.name)
    \/ /\ last.op = "getitem" /\ last.set.op = "alias_set"
       /\ last.set.prefix = last.prefix /\ last.item = AliasIndex(last.set.name)

\* v as the signed 4-byte integer with the same low bits.
SignedWrap(v) == ((v + Pow2(LongBits - 1)) % Pow2(LongBits)) - Pow2(LongBits - 1)

InSignedRange(v) == -Pow2(LongBits - 1) <= v /\ v < Pow2(LongBits - 1)

\* C5 as stated: after a positional set of register 13 to v, reading sp returns v; the
\* same for 14 / lr and 15 / pc, and a write through an alias is returned by the
\* numbered read of the same view.
C5_AliasReturnsValue ==
    AliasReadAfterSet => last.res.val = <<last.set.value>>

\* C5 as amended: the read returns v as a signed 4-byte integer, which is v itself
\* when v is in the signed 4-byte range.
C5_AliasReturnsWrappedValue ==
    AliasReadAfterSet
    => /\ last.res.kind = "int"
       /\ last.res.val = <<SignedWrap(last.set.value)>>
       /\ InSignedRange(last.set.value) => last.res.val = <<last.set.value>>

\* view[13] = -3 was followed by view.sp on the ARM7 view, which returned -3.
C5_Witness ==
    /\ last.op = "alias_get" /\ last.name = "sp" /\ last.prefix = "arm7."
    /\ last.set.op = "setitem" /\ last.set.item = 13 /\ last.set.prefix = "arm7."
    /\ last.set.value = -3 /\ last.res.val = <<-3>>

----------------------------------------------------------------------------
(* Claims about watchpoints                                                 *)

\* The registration method of a watchpoint kind.
RegisterOp(kind) == "register_" \o kind

\* The native side reached a watchpoint right after a registration call for it.
TriggerAfterRegistration ==
    /\ last.op = "trigger"
    /\ last.reg.op = RegisterOp(last.kind)
    /\ last.reg.addr = last.addr

\* C6: after a second callback is registered for the (address, kind) of an earlier one,
\* a trigger of that watchpoint invokes only the second callback; after a registration
\* with callback None for that (address, kind), a trigger invokes no callback.
C6_WatchpointReplacement ==
    TriggerAfterRegistration
    => IF last.reg.callback = NoCallback
       THEN invoked = <<>>
       ELSE /\ Len(invoked) = 1
            /\ invoked[1].fn = last.reg.callback
            /\ invoked[1] = last.reg.calls[1].cb
            /\ invoked[1] # last.reg.pre[<<last.kind, last.addr>>].cb

\* Callback g replaced callback f at a watchpoint, which then invoked g's trampoline.
C6_Witness ==
    /\ TriggerAfterRegistration
    /\ last.reg.callback = "g"
    /\ last.reg.pre[<<last.kind, last.addr>>].cb = MEMORY_CB_FN(1, "f")
    /\ invoked = <<MEMORY_CB_FN(2, "g")>>

----------------------------------------------------------------------------
(* Claims about resume and the keypad                                       *)

\* C7: resume() with keep_keypad=False resets the keypad to 0 (all keys released),
\* and resume(keep_keypad=True) leaves the keypad as it was.
C7_ResumeResetsKeypad ==
    (last.op = "resume") => (keypad = (IF last.keep_keypad THEN last.pre ELSE 0))

----------------------------------------------------------------------------
(* Claims about read_string                                                 *)

\* The first zero byte at or after address is n bytes after it.
FirstZeroAt(m, address, n) ==
    /\ cell(m, address + n) = 0
    /\ \A k \in 0..(n - 1) : cell(m, address + k) # 0

\* The n bytes of memory from address on.
BytesFrom(m, address, n) == [k \in 1..n |-> cell(m, address + k - 1)]

\* C10: read_string(address, codec) returns the decoding of exactly the bytes from
\* address up to, not including, the first zero byte (72,101,108,108,111,0 give
\* "Hello"); with the first zero n bytes after address, n bytes are decoded, and a zero
\* byte at address gives the empty string.
C10_ReadStringStopsAtFirstZero ==
    rs.pc = "done"
    => /\ \E n \in 0..MaxScan :
              /\ FirstZeroAt(mem, rs.address, n)
              /\ rs.i = n
              /\ SubSeq(rs.string_buff, 1, rs.i) = BytesFrom(mem, rs.address, n)
              /\ rs.result = decode(rs.codec, BytesFrom(mem, rs.address, n))
       /\ BytesFrom(mem, rs.address, 6) = <<72, 101, 108, 108, 111, 0>>
              => rs.result = <<72, 101, 108, 108, 111>>
       /\ cell(mem, rs.address) = 0 => rs.result = <<>>

\* read_string returned "Hello".
C10_Witness ==
    /\ rs.pc = "done" /\ rs.address = 0
    /\ BytesFrom(mem, 0, 6) = <<72, 101, 108, 108, 111, 0>>
    /\ rs.result = <<72, 101, 108, 108, 111>>

----------------------------------------------------------------------------
(* Claims about the shape of read's result and the accessors                *)

\* The read calls: DeSmuME_Memory.read and the MemoryAccessor reads.
ReadOps == {"read", "acc_getitem", "acc_slice", "acc_read_byte", "acc_read_short",
            "acc_read_long"}

\* The size a read uses: 1 when it is omitted.
EffSize(size) == IF size = None THEN 1 ELSE size

\* C11: the shape of read's result depends only on the request: equal bounds give one
\* scalar from exactly one unit read; unequal bounds with signed=False and size 1 give a
\* byte block; every other unequal-bounds combination gives a list.  The accessors
\* follow: acc[a] is a scalar byte, unsigned[a:b] a byte block, signed[a:b], [a:b:2] and
\* [a:b:4] lists, read_short / read_long a scalar.
C11_ResultShape ==
    (last.op \in ReadOps /\ EffSize(last.size) \in ValidSizes)
    => /\ last.start = last.end
          => /\ last.res.kind = "int"
             /\ Len(last.res.val) = 1
             /\ last.res.calls = <<Call(scalar_fn(EffSize(last.size), last.signed),
                                        last.start, 0)>>
       /\ (last.start # last.end /\ ~last.signed /\ EffSize(last.size) = 1)
          => last.res.kind = "bytes"
       /\ (last.start # last.end /\ (last.signed \/ EffSize(last.size) # 1))
          => last.res.kind = "list"

\* The unsigned unit-write entry points of the native library.
UnsignedWrites == {"write_byte", "write_short", "write_long"}

\* What the accessor of the other signedness does with the call that was just made.
OtherAccessorWrite ==
    IF last.op = "acc_setitem"
    THEN acc_setitem_int(last.pre, ~last.signed, last.start, last.value[1])
    ELSE acc_setitem_slice(last.pre, ~last.signed, last.start, last.end, last.size,
                           last.value)

\* C12: a write through the signed accessor and the same write through the unsigned
\* accessor issue the same sequence of unsigned unit writes (addresses, sizes, values),
\* and no signed write entry point is called.
C12_SignedWriteSameAsUnsigned ==
    last.op \in {"acc_setitem", "acc_setslice"}
    => /\ OtherAccessorWrite.calls = last.calls
       /\ OtherAccessorWrite.err = last.err
       /\ OtherAccessorWrite.mem = mem
       /\ \A k \in 1..Len(last.calls) : last.calls[k].fn \in UnsignedWrites

\* The signed accessor wrote two shorts by a slice key.
C12_Witness ==
    /\ last.op = "acc_setslice" /\ last.signed /\ last.size = 2
    /\ Len(last.calls) = 2 /\ last.calls[2].fn = "write_short"

----------------------------------------------------------------------------
(* Claims about the iteration of range reads and writes                     *)

\* The addresses start, start + size, start + 2*size, ... below end.
Visited(start, end, size) == {a \in start..(end - 1) : (a - start) % size = 0}

\* ceil(a / b) for a >= 0 and b > 0.
CeilDiv(a, b) == (a + b - 1) \div b

\* The calls are made at exactly the addresses of the set, in ascending order, by fn.
CallsVisit(calls, addrs, fn) ==
    /\ Len(calls) = Cardinality(addrs)
    /\ \A k \in 1..Len(calls) : calls[k].addr \in addrs /\ calls[k].fn = fn
    /\ \A k \in 1..(Len(calls) - 1) : calls[k].addr < calls[k + 1].addr

\* C19: for start != end, read issues exactly one unit read at each address start,
\* start + size, start + 2*size, ... strictly below end, in ascending order and at no
\* other address (ceil((end - start) / size) reads when end > start), and the k-th
\* element of the result is the value read at start + k*size.
C19_RangeReadIteration ==
    (last.op = "read" /\ last.start # last.end /\ EffSize(last.size) \in ValidSizes)
    => LET size == EffSize(last.size)
           fn   == scalar_fn(size, last.signed)
       IN  /\ CallsVisit(last.res.calls, Visited(last.start, last.end, size), fn)
           /\ last.end > last.start
              => /\ Len(last.res.calls) = CeilDiv(last.end - last.start, size)
                 /\ last.res.err = ""
           /\ last.res.err = ""
              => /\ Len(last.res.val) = Len(last.res.calls)
                 /\ \A k \in 0..(Len(last.res.val) - 1) :
                        last.res.val[k + 1] = native_read(fn, mem, last.start + k * size)

\* Five bytes were read as three shorts, the last one reaching past end.
C19_Witness ==
    /\ last.op = "read" /\ last.size = 2 /\ last.end = last.start + 5
    /\ Len(last.res.val) = 3 /\ last.res.calls[3].addr = last.start + 4
    /\ last.res.val[1] # last.res.val[2]

\* The unit write of each access size.
UnitWriteOf(size) ==
    CASE size = 1 -> "write_byte" [] size = 2 -> "write_short" [] size = 4 -> "write_long"

\* C20: for start != end and values at least as long as the number of steps, write
\* issues one unit write of the given size at each address start + i*size < end, in
\* ascending order, with value values[i] (marshalled to the unit's unsigned type); no
\* unit write is issued at an address outside [start, end) and elements of values
\* beyond the step count are never written.
C20_RangeWriteIteration ==
    LET steps == Visited(last.start, last.end, last.size)
    IN  (/\ last.op = "write" /\ last.start # last.end /\ last.size \in ValidSizes
         /\ Len(last.value) >= Cardinality(steps))
        => /\ last.err = ""
           /\ CallsVisit(last.calls, steps, UnitWriteOf(last.size))
           /\ \A k \in 0..(Len(last.calls) - 1) :
                  /\ last.calls[k + 1].addr = last.start + k * last.size
                  /\ last.calls[k + 1].addr \in last.start..(last.end - 1)
                  /\ last.calls[k + 1].val = Truncated(last.size, last.value[k + 1])

\* Nine values were given for five bytes written as shorts: three of them were written.
C20_Witness ==
    /\ last.op = "write" /\ last.size = 2 /\ last.end = last.start + 5
    /\ Len(last.value) = MaxSpan + 1 /\ Len(last.calls) = 3 /\ last.err = ""
    /\ last.calls[2].val = Truncated(2, 70000)

----------------------------------------------------------------------------
(* Claims about positional register access                                  *)

\* The native name of numbered register i of a view.
NumberedName(prefix, i) == prefix \o "r" \o ToString(i)

\* C13: view[i] with i in 0..15 makes exactly one named register read, of the view's own
\* prefix + "r" + i, and returns that register's value, as the rI property does; an
\* index outside 0..15 raises the invalid-register error with no native call.
C13_PositionalGet ==
    last.op = "getitem"
    => IF last.item \in 0..15
       THEN /\ last.res.calls = <<Call("read_register", NumberedName(last.prefix, last.item), 0)>>
            /\ last.res.kind = "int"
            /\ last.res.val = <<regs[NumberedName(last.prefix, last.item)]>>
            /\ last.res = reg_get(regs, last.prefix, "r" \o ToString(last.item))
       ELSE /\ last.res.kind = "error"
            /\ last.res.err = "Invalid register"
            /\ last.res.calls = <<>>

\* r5 of the ARM7 view was set to 7 and arm7[5] returned it, the ARM9 r5 still being 0.
C13_Witness ==
    /\ last.op = "getitem" /\ last.prefix = "arm7." /\ last.item = 5
    /\ last.res.val = <<7>> /\ regs["arm9.r5"] = 0

\* C17: view[i] = value with i in 0..15 performs exactly one named write of the value to
\* prefix + "r" + i and then raises the invalid-register error; with an index outside
\* 0..15 it raises the error and performs no write.
C17_PositionalSetFallsThrough ==
    last.op = "setitem"
    => /\ last.err = "Invalid register"
       /\ IF last.item \in 0..15
          THEN /\ last.calls = <<Call("write_register", NumberedName(last.prefix, last.item),
                                      c_int(last.value))>>
               /\ regs = [last.pre EXCEPT ![NumberedName(last.prefix, last.item)] =
                                              c_int(last.value)]
          ELSE /\ last.calls = <<>>
               /\ regs = last.pre

\* arm9[0] = 7 wrote r0 of the ARM9 view and raised.
C17_Witness ==
    /\ last.op = "setitem" /\ last.prefix = "arm9." /\ last.item = 0 /\ last.value = 7
    /\ last.err = "Invalid register" /\ regs["arm9.r0"] = 7 /\ last.pre["arm9.r0"] = 0

----------------------------------------------------------------------------
(* Claims about the ownership of callbacks                                  *)

\* The trampoline is installed at some watchpoint of the native library.
IsInstalled(cb) == \E slot \in DOMAIN hooks : hooks[slot].cb = cb

\* C14: when a watchpoint is removed (callback None) or replaced by a new registration,
\* the registry stops owning the callback registered before: a callback is owned
\* exactly as long as it is the registered one.
C14_OwnedOnlyWhileRegistered ==
    \A k \in 1..Len(_registered_cbs) : IsInstalled(_registered_cbs[k])

\* The trampoline is in the collection the registry owns.
IsOwned(cb) == \E k \in 1..Len(_registered_cbs) : _registered_cbs[k] = cb

\* C18: in every reachable state every non-null trampoline installed in the native
\* library for any (address, kind) is a member of _registered_cbs.
C18_InstalledAreOwned ==
    \A slot \in DOMAIN hooks : hooks[slot].cb # NullCb => IsOwned(hooks[slot].cb)

\* Two trampolines are installed at two watchpoints.
C18_Witness ==
    /\ Len(_registered_cbs) = 2
    /\ Cardinality({slot \in DOMAIN hooks : hooks[slot].cb # NullCb}) = 2

----------------------------------------------------------------------------
(* Claims about the joystick                                                *)

\* C15: joy_number_connected, joy_get_key, joy_get_set_key and joy_set_key raise
\* ValueError('Joystick not initialized.') and make no native call whenever the joystick
\* subsystem is not initialized; once it is initialized by joy_init they forward to the
\* native library without raising.
C15_JoystickGuard ==
    last.op \in JoyMethods
    => IF last.was_on
       THEN last.err = "" /\ Len(last.calls) = 1 /\ last.calls[1].fn = last.op
       ELSE last.err = "Joystick not initialized." /\ last.calls = <<>>

----------------------------------------------------------------------------
(* Claims about the keypad                                                  *)

\* Bit b of a non-negative integer.
Bit(x, b) == (x \div Pow2(b)) % 2

\* The bits of the 16-bit keypad word.
KeypadBits == 0..15

\* C16: keypad_add_key(key) sets the keypad to old | key and keypad_rm_key(key) sets it
\* to old & ~key, where key = keymask(k) = 1 << (k-1) for k > 0; pressing and then
\* releasing a key leaves that key's bit clear and every other bit as it was, and the
\* masks of distinct keys do not overlap.
C16_KeypadPressRelease ==
    /\ \A k \in 1..NB_KEYS : keymask(k) = Pow2(k - 1)
    /\ \A j, k \in 1..NB_KEYS :
           j # k => \A b \in KeypadBits : Bit(keymask(j), b) + Bit(keymask(k), b) <= 1
    /\ last.op = "keypad_add_key"
       => \A b \in KeypadBits :
              Bit(keypad, b) = (IF Bit(last.arg, b) = 1 THEN 1 ELSE Bit(last.pre, b))
    /\ last.op = "keypad_rm_key"
       => \A b \in KeypadBits :
              Bit(keypad, b) = (IF Bit(last.arg, b) = 1 THEN 0 ELSE Bit(last.pre, b))
    /\ (last.op = "keypad_rm_key" /\ last.pressed = last.arg)
       => \A b \in KeypadBits :
              Bit(keypad, b) = (IF Bit(last.arg, b) = 1 THEN 0 ELSE Bit(last.before, b))
    /\ last.op \in {"keypad_add_key", "keypad_rm_key"} => keypad \in 0..65535

\* KEY_LID was pressed and released again while two other keys were held.
C16_Witness ==
    /\ last.op = "keypad_rm_key" /\ last.arg = keymask(15) /\ last.pressed = last.arg
    /\ last.before = 5 /\ last.pre = 5 + keymask(15) /\ keypad = 5


----------------------------------------------------------------------------
(* Claims about the owned trampolines and the frame of a registration       *)

RegisterOps == {"register_write", "register_read", "register_exec"}

\* C21: the owned trampoline collection never shrinks: every step keeps what it held,
\* a registration call with a present callback makes it one longer, and a clearing
\* call (callback None) or a replacing call removes nothing from it; so its length is
\* the number of registration calls made with a present callback.
C21_OwnedNeverShrinks ==
    [][/\ Len(_registered_cbs') >= Len(_registered_cbs)
       /\ SubSeq(_registered_cbs', 1, Len(_registered_cbs)) = _registered_cbs
       /\ nops' = nops + 1
          => /\ last'.op \in RegisterOps
             /\ Len(_registered_cbs') =
                  Len(_registered_cbs) + (IF last'.callback # NoCallback THEN 1 ELSE 0)]_vars

\* A clearing call was made on an installed watchpoint and the collection is as before.
C21_Witness ==
    /\ last.op \in RegisterOps /\ last.callback = NoCallback
    /\ \E k \in Kinds : /\ last.op = "register_" \o k
                        /\ last.pre[<<k, last.addr>>].cb # NullCb
                        /\ hooks[<<k, last.addr>>].cb = NullCb
    /\ Len(_registered_cbs) = 1 /\ _registered_cbs = last.pre_cbs


\* C22: a registration call of kind k at address a issues exactly one native
\* registration call, to the entry point of kind k, with that address and span size
\* (1 for write and read, 2 for exec when the size is omitted), and changes only the
\* (k, a) watchpoint: every other watchpoint stays as it was.
C22_RegistrationFrame ==
    \A k \in Kinds :
        (last.op = "register_" \o k)
        => LET sz == IF last.size # None THEN last.size
                     ELSE IF k \in {"write", "read"} THEN 1 ELSE 2
           IN  /\ Len(last.calls) = 1
               /\ last.calls[1].fn = last.op
               /\ last.calls[1].addr = last.addr
               /\ last.calls[1].size = sz
               /\ last.calls[1].cb.fn = last.callback
               /\ hooks[<<k, last.addr>>] = [cb |-> last.calls[1].cb, size |-> sz]
               /\ \A slot \in DOMAIN hooks :
                      slot # <<k, last.addr>> => hooks[slot] = last.pre[slot]

\* An exec watchpoint was registered without a size at an address whose write
\* watchpoint is installed with another callback.
C22_Witness ==
    /\ last.op = "register_exec" /\ last.size = None /\ last.callback = "g"
    /\ hooks[<<"write", last.addr>>].cb.fn = "f"
    /\ hooks[<<"exec", last.addr>>].size = 2


----------------------------------------------------------------------------
(* Claims about the buffer and the termination of read_string               *)

\* The buffer of a scan in progress or finished: its length is the tracked capacity,
\* the index is within it, the capacity is 50 until i has passed it and the next
\* multiple of 50 from then on, and the bytes scanned so far are all in place.
BufferInOrder ==
    rs.pc \in {"loop", "done"}
    => /\ Len(rs.string_buff) = rs.max_len
       /\ rs.i <= rs.max_len
       /\ rs.max_len = (IF rs.i <= InitialLen THEN InitialLen
                        ELSE InitialLen + GrowBy * CeilDiv(rs.i - InitialLen, GrowBy))
       /\ SubSeq(rs.string_buff, 1, rs.i) = BytesFrom(mem, rs.address, rs.i)

\* A pass of the loop stores at index i, below the capacity of the buffer it stores
\* into; the capacity changes only by a growth of 50 made when i had reached it, and
\* the growth keeps every byte stored before.
StoreInBounds ==
    (rs.pc = "loop" /\ rs'.pc = "loop" /\ rs'.i = rs.i + 1)
    => /\ rs.i < rs'.max_len
       /\ rs'.string_buff[rs.i + 1] = rs.cur_byte
       /\ SubSeq(rs'.string_buff, 1, rs.i) = SubSeq(rs.string_buff, 1, rs.i)
       /\ rs'.max_len # rs.max_len
          => rs'.max_len = rs.max_len + GrowBy /\ rs.i = rs.max_len
       /\ rs.i >= rs.max_len => rs'.max_len # rs.max_len

\* C23: during read_string the buffer index never leaves the buffer: at every byte
\* store the index i is below the current capacity, the buffer length always equals
\* the tracked capacity, the capacity starts at 50 and grows by exactly 50 only when i
\* has reached it, and no scanned byte is lost or overwritten by a growth step.
C23_BufferIndexInBounds == [](BufferInOrder) /\ [][StoreInBounds]_vars

\* A scan outgrew the first 50 bytes and returned.
C23_Witness ==
    /\ rs.pc = "done" /\ rs.i > InitialLen /\ rs.max_len = InitialLen + GrowBy
    /\ rs.string_buff[InitialLen + 1] # 0


\* The scan from rs.address meets a zero byte within the bytes the model follows.
ZeroAhead == \E n \in 0..MaxScan : FirstZeroAt(mem, rs.address, n)

\* read_string has returned only if the first zero is n bytes after the start, and
\* then after exactly n + 1 byte reads.
ReturnedAtFirstZero ==
    rs.pc = "done"
    => \E n \in 0..MaxScan : FirstZeroAt(mem, rs.address, n) /\ rs.nreads = n + 1

\* Without a zero byte a scan in progress has read one byte per pass and goes on.
ScansOn ==
    (rs.pc = "loop" /\ ~ZeroAhead)
    => rs.cur_byte # 0 /\ rs.nreads = rs.i + 1

\* C24: read_string terminates if and only if memory holds a zero byte at or after the
\* start address: with the first zero n bytes after the start it returns after exactly
\* n + 1 byte reads, and when there is no zero byte the scan never returns.
C24_TerminatesIffZero ==
    /\ [](ReturnedAtFirstZero)
    /\ [](ScansOn)
    /\ (rs.pc = "loop" /\ ZeroAhead) ~> (rs.pc = "done")
    /\ [](rs.pc = "loop" /\ ~ZeroAhead => [](rs.pc = "loop"))

\* A scan returned after 54 reads, the zero being 53 bytes after the start.
C24_Witness ==
    /\ rs.pc = "done" /\ rs.nreads = InitialLen + 4
    /\ FirstZeroAt(mem, rs.address, InitialLen + 3)


----------------------------------------------------------------------------
(* Claims about callbacks during a cycle step                               *)

\* Every call in progress sits on top of the cycle call, and every callback in progress
\* runs in a trampoline the facade still owns.
NestedInCycle ==
    /\ stack # <<>> => stack[1] = CycleFrame
    /\ \A k \in 2..Len(stack) : stack[k] # CycleFrame /\ IsOwned(stack[k])

\* A callback starts only as the innermost call above a cycle call in progress, and
\* the cycle call returns only as the innermost call.
StartsAndEndsInCycle ==
    /\ invoked' # invoked
       => /\ stack # <<>> /\ stack[1] = CycleFrame
          /\ stack' = Append(stack, invoked'[Len(invoked')])
    /\ (stack # <<>> /\ stack' = <<>>) => stack = <<CycleFrame>>

\* What a callback finds and leaves when it re-enters the facade: every installed
\* trampoline is owned, a registration made inside the callback included.
OwnedInsideCallback ==
    /\ \A slot \in DOMAIN hooks : hooks[slot].cb # NullCb => IsOwned(hooks[slot].cb)
    /\ (Len(stack) > 1 /\ last.op \in RegisterOps)
       => /\ Len(last.calls) = 1
          /\ _registered_cbs = last.pre_cbs \o
                 (IF last.callback # NoCallback THEN <<last.calls[1].cb>> ELSE <<>>)
    /\ (Len(stack) > 1 /\ last.op = "read") => last.res.err = ""

----------------------------------------------------------------------------
(* Claims about a write with too few values                                 *)

RECURSIVE AfterCalls(_, _)
\* The memory after the unit writes of a sequence of native calls.
AfterCalls(m, calls) ==
    IF calls = <<>> THEN m
    ELSE AfterCalls(native_write(calls[1].fn, m, calls[1].addr, calls[1].val), Tail(calls))

\* C26: write called with values shorter than the number of steps fails with an
\* index-out-of-range failure only after it has issued the unit writes for the first
\* len(values) addresses; those writes are not rolled back, so memory is left
\* partially written when the error is raised.
C26_ShortValuesPartialWrite ==
    LET steps == Visited(last.start, IF last.start = last.end THEN last.end + 1 ELSE last.end,
                         last.size)
    IN  (/\ last.op = "write" /\ last.size \in ValidSizes
         /\ Len(last.value) < Cardinality(steps))
        => /\ last.err = "IndexError"
           /\ Len(last.calls) = Len(last.value)
           /\ \A k \in 0..(Len(last.value) - 1) :
                  last.calls[k + 1] = Call(UnitWriteOf(last.size), last.start + k * last.size,
                                           Truncated(last.size, last.value[k + 1]))
           /\ mem = AfterCalls(last.pre, last.calls)

\* Two values were given for more steps: both were written, then the error was raised.
C26_Witness ==
    /\ last.op = "write" /\ last.err = "IndexError"
    /\ Len(last.value) = 2 /\ Len(last.calls) = 2
    /\ last.calls[2].addr = last.start + last.size
    /\ mem # last.pre


----------------------------------------------------------------------------
(* Claims about the frontend                                                *)

\* At most one emu_cycle handler is scheduled, and the flag says whether one is.
OneMainLoop ==
    /\ idle_sources \in {0, 1}
    /\ ctl._registered_main_loop <=> idle_sources = 1

\* The flag is cleared only by the emu_cycle invocation that returns False, which
\* takes its handler out of the main loop.
ClearedByLastCycle ==
    (ctl._registered_main_loop /\ ~ctl'._registered_main_loop)
    => /\ last'.op = "emu_cycle" /\ last'.ret = FALSE
       /\ idle_sources' = idle_sources - 1

\* C27: across any interleaving of resume(), pause actions and emu_cycle idle
\* invocations, at most one emu_cycle idle handler is scheduled at any time, and
\* _registered_main_loop is true exactly when one is scheduled (it is cleared only by
\* the invocation that returns False and thereby unschedules itself).
C27_OneMainLoop == [](OneMainLoop) /\ [][ClearedByLastCycle]_vars

\* After frames were run, emu_cycle found the emulator paused and unscheduled itself.
C27_Witness ==
    /\ last.op = "emu_cycle" /\ last.ret = FALSE
    /\ ctl._fs_frame_count > 0
    /\ idle_sources = 0 /\ ~ctl._registered_main_loop

\* C28: lookup_key(keyval) returns the keymask of the emulator key that keyval is
\* configured for: if keyval equals keyboard_cfg[i] (the entry for key number i + 1,
\* KEY_A at index 0), the result is keymask(i + 1) = 1 << i, so pressing the key
\* configured for A sets the A bit of the keypad and releasing it clears the same bit.
C28_LookupKeyOfConfiguredKey ==
    \A i \in 0..(NB_KEYS - 1) :
        (last.op \in {"key_press", "key_release"} /\ last.keyval = ctl._keyboard_cfg[i + 1])
        => /\ last.key = 2 ^ i
           /\ (last.op = "key_press" /\ ~last.mods /\ last.was_running /\ i + 1 # KEY_BOOST)
              => keypad % (2 ^ (i + 1)) >= 2 ^ i
           /\ (last.op = "key_release" /\ last.was_running)
              => keypad % (2 ^ (i + 1)) < 2 ^ i

\* C30: whenever boost is off, _frameskip equals the frameskip most recently chosen
\* through the frameskip menu (initially 0): toggling boost on sets the frameskip to 20
\* and toggling it off restores the chosen value, also when the menu choice was made
\* while boost was on.
C30_FrameskipIsChosenWhenBoostOff ==
    /\ ~ctl._boost => ctl._frameskip = chosen_fs
    /\ (last.op = "key_press" /\ ctl._boost /\ ~last.mods
            /\ last.keyval = ctl._keyboard_cfg[KEY_BOOST])
       => ctl._frameskip = 20


----------------------------------------------------------------------------
(* Claims about the life cycle of the joystick                              *)

JoyLifeOps == {"joy_init", "joy_uninit", "__del__"}

\* C29: for any sequence of joy_init, joy_uninit and finalisation, the native joystick
\* uninit is called at most once per native joystick init (only while the joystick is
\* initialised), the native init is never called again while the joystick is
\* initialised, and after joy_uninit the object treats the joystick as not initialised.
C29_JoystickLifeCycle ==
    last.op \in JoyLifeOps
    => /\ \A k \in 1..Len(last.calls) :
              /\ last.calls[k].fn = "joy_uninit" => last.was_on
              /\ last.calls[k].fn = "joy_init" => ~last.was_on
       /\ Len(last.calls) <= 1
       /\ last.op \in {"joy_uninit", "__del__"} => ~has_joy

====
